---------------------------- MODULE Spec2Model ----------------------------
(***************************************************************************)
(* A model of the AI real-estate agent: the search pipeline                *)
(* (SearchAgent.execute with its scrape and analysis gateways), the        *)
(* search tab of the dashboard with its persistence step, the investment   *)
(* agent's structured mode, and the cache gateway.                         *)
(*                                                                         *)
(* Python values are modelled as tagged records so that None, a list and   *)
(* a string stay distinguishable.  Texts returned by the model provider    *)
(* in structured mode are sequences of lexical chunks (see Tok).           *)
(***************************************************************************)
EXTENDS Integers, Sequences, FiniteSets, TLC

VARIABLES
    properties,            \* table properties, in insertion order
    search_history,        \* table search_history, in insertion order
    investment_analyses,   \* table investment_analyses, in insertion order
    cache,                 \* the CacheService object (or the failed construction)
    store,                 \* the contents of the key-value store behind it
    now,                   \* the database clock, in whole seconds
    last                   \* the last operation: its inputs, calls and outcome

vars ==
    <<properties, search_history, investment_analyses, cache, store, now, last>>

(***************************************************************************)
(* Bounds of the model.                                                    *)
(***************************************************************************)
MaxProps == 2          \* longest property list a scrape response carries
MaxStored == 2         \* rows of properties before searches stop
MaxHistory == 2        \* rows of search_history before searches stop
MaxTextLen == 3        \* chunks in a structured-mode model response
MaxClock == 1          \* seconds the database clock can advance
MaxAnalyses == 2       \* rows of investment_analyses before analyses stop

(***************************************************************************)
(* Python values.                                                          *)
(***************************************************************************)
PyNone == [tag |-> "None", items |-> <<>>, s |-> ""]
PyMissing == [tag |-> "missing", items |-> <<>>, s |-> ""]
PyList(xs) == [tag |-> "list", items |-> xs, s |-> ""]
PyStr(t) == [tag |-> "str", items |-> <<>>, s |-> t]

\* Python truthiness of a value: None, [] and "" are falsy.
Truthy(v) ==
    CASE v.tag = "list" -> v.items # <<>>
      [] v.tag = "str" -> v.s # ""
      [] OTHER -> FALSE

(***************************************************************************)
(* Requests.  Prices are in tenths of a crore.                             *)
(***************************************************************************)
MinPrice == 1          \* number_input min_value = 0.1
MaxPrice == 1000       \* number_input max_value = 100.0
Cities == {"Pune", "Goa"}
PropertyTypes == {"Flat", "Individual House"}

\* What the widgets of the search tab can hold.
UiRequests ==
    [city : Cities \cup {""}, max_price : {50}, property_type : {"Flat"}]

\* What a caller of SearchAgent.execute can pass.
AnyRequests ==
    {[city |-> "Pune", max_price |-> 50, property_type |-> "Flat"],
     [city |-> "", max_price |-> 50, property_type |-> "Flat"],
     [city |-> "Pune", max_price |-> 0, property_type |-> "Flat"],
     [city |-> "Pune", max_price |-> 1001, property_type |-> "Flat"],
     [city |-> "Pune", max_price |-> 50, property_type |-> "Castle"]}

(***************************************************************************)
(* Scraped property records.  The schema sent to the provider names        *)
(* building_name, property_type, location_address, price (a string) and    *)
(* description; it does not forbid further keys.  city is "missing" when   *)
(* the record has no such key; extra says the record carries a key that    *)
(* is no column of Property.                                               *)
(***************************************************************************)
\* A price is the text the scrape schema asks for or a number (in tenths).
PriceText == [kind |-> "str", n |-> 0]
PriceNum(n) == [kind |-> "float", n |-> n]

ScrapedRecords ==
    [building_name : {"B1"}, property_type : {"Flat"}, price : {PriceText},
     city : {"Pune", "missing"}, extra : {FALSE}]
    \cup
    [building_name : {"B1"}, property_type : {"Flat"}, price : {PriceText},
     city : {"missing"}, extra : {TRUE}]

SchemaRecord(r) == r.city = "missing" /\ ~r.extra

\* The sequences over S of length at most n.
SeqsUpTo(S, n) == UNION {[1..k -> S] : k \in 0..n}

\* The orderings of a sequence of distinct elements.
Orderings(seq) ==
    {p \in [DOMAIN seq -> {seq[i] : i \in DOMAIN seq}] :
        \A i, j \in DOMAIN p : i # j => p[i] # p[j]}

(***************************************************************************)
(* Responses of the scrape provider to firecrawl.extract.                  *)
(***************************************************************************)
ScrapeRaise ==
    [raises |-> TRUE, isDict |-> FALSE, success |-> "missing",
     hasData |-> FALSE, props |-> PyMissing]
ScrapeNotDict ==
    [raises |-> FALSE, isDict |-> FALSE, success |-> "missing",
     hasData |-> FALSE, props |-> PyMissing]
ScrapeDict(success, hasData, props) ==
    [raises |-> FALSE, isDict |-> TRUE, success |-> success,
     hasData |-> hasData, props |-> props]

ScrapeResps ==
    {ScrapeRaise, ScrapeNotDict,
     ScrapeDict("false", FALSE, PyMissing),
     ScrapeDict("false", TRUE,
                PyList(<<[building_name |-> "B1", property_type |-> "Flat",
                          price |-> PriceText, city |-> "Pune",
                          extra |-> FALSE]>>)),
     ScrapeDict("missing", TRUE, PyList(<<>>)),
     ScrapeDict("true", FALSE, PyMissing),
     ScrapeDict("true", TRUE, PyMissing),
     ScrapeDict("true", TRUE, PyNone)}
    \cup {ScrapeDict("true", TRUE, PyList(ps)) :
              ps \in SeqsUpTo(ScrapedRecords, MaxProps)}

\* The response reports success and carries a property list.
ScrapeSucceeded(r) ==
    /\ ~r.raises /\ r.isDict /\ r.success = "true" /\ r.hasData
    /\ r.props.tag = "list"

(***************************************************************************)
(* ScrapingService.fetch_properties: the value returned for a provider     *)
(* response.                                                               *)
(***************************************************************************)
\* fetch_properties returning the extracted value without taking its len().
FetchPropertiesUnchecked(r) ==
    IF r.raises \/ ~r.isDict THEN PyList(<<>>)
    ELSE IF r.success # "true" THEN PyList(<<>>)
    ELSE IF ~r.hasData THEN PyList(<<>>)
    ELSE IF r.props.tag = "missing" THEN PyList(<<>>) ELSE r.props

FetchProperties(r) ==
    IF r.raises \/ ~r.isDict
    THEN PyList(<<>>)              \* except Exception: ... return []
    ELSE IF r.success # "true"
    THEN PyList(<<>>)              \* response.get('success') falsy: return []
    ELSE IF ~r.hasData
    THEN PyList(<<>>)              \* response['data'] raises KeyError
    ELSE LET extracted ==
                 IF r.props.tag = "missing" THEN PyList(<<>>) ELSE r.props
         IN IF extracted.tag = "None"
            THEN PyList(<<>>)      \* len(None) raises TypeError in the log line
            ELSE extracted

(***************************************************************************)
(* AIService.analyze_properties (free-text mode).                          *)
(***************************************************************************)
NoPropertiesMsg ==
    "No properties found. Please try searching with different criteria."
CouldNotMsg == "Analysis could not be generated. Please try again."
ErrorMsg == "Error analyzing properties. Please check API configuration."

\* Responses of model.generate_content to the free-text prompt.
NoModel == [kind |-> "none", s |-> ""]
ModelResps ==
    {[kind |-> "raise", s |-> ""], [kind |-> "notext", s |-> ""],
     [kind |-> "text", s |-> ""], [kind |-> "text", s |-> "Market analysis"]}

\* Without the short-circuit on an empty list.
AnalyzePropertiesAlwaysAsks(props, m) ==
    [text |-> CASE m.kind = "raise" -> PyStr(ErrorMsg)
                [] m.kind = "notext" -> PyStr(CouldNotMsg)
                [] OTHER -> PyStr(m.s),
     calls |-> <<"model">>, asked |-> m]

\* calls: the calls made to the model; asked: the response it consumed.
AnalyzeProperties(props, m) ==
    IF ~Truthy(props)
    THEN [text |-> PyStr(NoPropertiesMsg), calls |-> <<>>, asked |-> NoModel]
    ELSE [text |-> CASE m.kind = "raise" -> PyStr(ErrorMsg)
                     [] m.kind = "notext" -> PyStr(CouldNotMsg)
                     [] OTHER -> PyStr(m.s),
          calls |-> <<"model">>, asked |-> m]

(***************************************************************************)
(* SearchAgent.execute: scrape, then analyse, then return the composite.   *)
(***************************************************************************)
\* execute asking the scrape provider a second time when the first answer
\* gave no properties.
ExecuteRetrying(req, r, m) ==
    LET props == FetchProperties(r)
        an == AnalyzeProperties(props, m)
    IN [raised |-> "none",
        properties |-> props,
        analysis |-> an.text,
        asked |-> an.asked,
        log |-> (IF Truthy(props) THEN <<"scrape">> ELSE <<"scrape", "scrape">>)
                \o an.calls]

Execute(req, r, m) ==
    LET props == FetchProperties(r)
        an == AnalyzeProperties(props, m)
    IN [raised |-> "none",
        properties |-> props,
        analysis |-> an.text,
        asked |-> an.asked,
        log |-> <<"scrape">> \o an.calls]



(***************************************************************************)
(* Structured mode: the text of a model response is a sequence of chunks.  *)
(*   "F"    a code-fence marker (three backquotes)                          *)
(*   "json" the language tag                                                *)
(*   "s"    whitespace                                                      *)
(*   "OBJ"  the text of a JSON object with the seven fields asked for       *)
(*   "OBJ1", "OBJ2"  the two parts of the text of such an object whose      *)
(*          analysis string holds a fence marker: OBJ1 F OBJ2 is the text   *)
(*   "BAD"  the text of such an object with risk_score 150 and the          *)
(*          recommendation 'sell'                                           *)
(*   "ARR"  the text of a JSON value that is no object (an array)           *)
(*   "junk" text that is no JSON and holds no fence                         *)
(***************************************************************************)
Tok == {"F", "json", "s", "OBJ", "OBJ1", "OBJ2", "BAD", "ARR", "junk"}
Texts == SeqsUpTo(Tok, MaxTextLen)

\* The texts of the JSON objects, and such a text between a leading and a
\* trailing fence marker, with or without the language tag and line breaks.
ObjectTexts == {<<"OBJ">>, <<"OBJ1", "F", "OBJ2">>, <<"BAD">>}
Fenced(j) ==
    {<<"F">> \o tag \o ws1 \o j \o ws2 \o <<"F">> :
        tag \in {<<>>, <<"json">>}, ws1 \in {<<>>, <<"s">>},
        ws2 \in {<<>>, <<"s">>}}

NoReply == [kind |-> "none", text |-> <<>>]
\* Responses of model.generate_content to a structured prompt: the call
\* raises, the response has no text, or it has one.
StructResps ==
    {[kind |-> "raise", text |-> <<>>], [kind |-> "notext", text |-> <<>>]}
    \cup {[kind |-> "text", text |-> t] :
              t \in Texts \cup ObjectTexts
                    \cup UNION {Fenced(j) : j \in ObjectTexts}}

\* str.strip(): whitespace off both ends.
RECURSIVE LStrip(_)
LStrip(t) == IF t # <<>> /\ Head(t) = "s" THEN LStrip(Tail(t)) ELSE t
RECURSIVE RStrip(_)
RStrip(t) ==
    IF t # <<>> /\ t[Len(t)] = "s" THEN RStrip(SubSeq(t, 1, Len(t) - 1)) ELSE t
Strip(t) == RStrip(LStrip(t))

\* str.startswith for one chunk.
StartsWith(t, tok) == t # <<>> /\ Head(t) = tok

\* The text up to the first fence marker.
RECURSIVE UpToFence(_)
UpToFence(t) ==
    IF t = <<>> \/ Head(t) = "F" THEN <<>>
    ELSE <<Head(t)>> \o UpToFence(Tail(t))

\* result_text.split(fence)[1] of a text that starts with a fence marker:
\* what lies between the first marker and the next one (or the end).
SplitFenceSecond(t) == UpToFence(Tail(t))

\* The keys of the JSON object the prompt asks for.
ResultKeys ==
    {"roi_5year", "roi_10year", "appreciation_rate", "rental_yield",
     "risk_score", "recommendation", "analysis"}

\* The values json.loads can return here, and the record of "no result".
\* keys are the keys a dictionary holds; a field whose key is absent has
\* the value .get() would give.
InvestFields(tag, r5, r10, ar, ry, risk, rec, text) ==
    [tag |-> tag, roi_5year |-> r5, roi_10year |-> r10,
     appreciation_rate |-> ar, rental_yield |-> ry, risk_score |-> risk,
     recommendation |-> rec, analysis |-> text,
     keys |-> IF tag = "dict" THEN ResultKeys ELSE {}]
NoResult == InvestFields("None", 0, 0, 0, 0, 0, "", "")
JsonArray == InvestFields("list", 0, 0, 0, 0, 0, "", "")
JsonObject == InvestFields("dict", 12, 30, 6, 3, 35, "buy", "Good location.")
FenceObject == InvestFields("dict", 12, 30, 6, 3, 35, "buy", "See FENCE below.")
RangeObject == InvestFields("dict", 12, 30, 6, 3, 150, "sell", "Good location.")

\* json.loads: leading and trailing whitespace is accepted; anything but one
\* JSON value raises JSONDecodeError.
JsonLoads(t) ==
    LET u == Strip(t)
    IN IF u = <<"OBJ">> THEN [ok |-> TRUE, value |-> JsonObject]
       ELSE IF u = <<"OBJ1", "F", "OBJ2">>
       THEN [ok |-> TRUE, value |-> FenceObject]
       ELSE IF u = <<"BAD">> THEN [ok |-> TRUE, value |-> RangeObject]
       ELSE IF u = <<"ARR">> THEN [ok |-> TRUE, value |-> JsonArray]
       ELSE [ok |-> FALSE, value |-> NoResult]

\* InvestmentAgent._get_default_analysis
FallbackAnalysis ==
    "Unable to generate investment analysis. Please try again or consult with a real estate expert."
DefaultAnalysis == InvestFields("dict", 0, 0, 0, 0, 50, "hold", FallbackAnalysis)

\* The text handed to json.loads: stripped, and when it starts with a fence
\* marker, the second piece of the split with a leading tag dropped.
ResultText(text) ==
    LET stripped == Strip(text)
    IN IF StartsWith(stripped, "F")
       THEN LET piece == SplitFenceSecond(stripped)
            IN Strip(IF StartsWith(piece, "json") THEN Tail(piece) ELSE piece)
       ELSE stripped

\* InvestmentAgent.execute with the JSONDecodeError handler left out.
InvestExecuteUnhandled(reply) ==
    IF reply.kind = "raise" THEN [raised |-> "none", value |-> DefaultAnalysis]
    ELSE IF reply.kind = "notext"
    THEN [raised |-> "none", value |-> DefaultAnalysis]
    ELSE LET parsed == JsonLoads(ResultText(reply.text))
         IN IF ~parsed.ok
            THEN [raised |-> "JSONDecodeError", value |-> NoResult]
            ELSE IF parsed.value.tag # "dict"
            THEN [raised |-> "none", value |-> DefaultAnalysis]
            ELSE [raised |-> "none", value |-> parsed.value]

\* InvestmentAgent.execute: every exception of the try block ends in the
\* default record.
InvestExecute(reply) ==
    IF reply.kind = "raise"
    THEN [raised |-> "none", value |-> DefaultAnalysis]   \* except Exception
    ELSE IF reply.kind = "notext"
    THEN [raised |-> "none", value |-> DefaultAnalysis]   \* else branch
    ELSE LET parsed == JsonLoads(ResultText(reply.text))
         IN IF ~parsed.ok
            THEN \* except json.JSONDecodeError
                 [raised |-> "none", value |-> DefaultAnalysis]
            ELSE IF parsed.value.tag # "dict"
            THEN \* result.get raises AttributeError: except Exception
                 [raised |-> "none", value |-> DefaultAnalysis]
            ELSE [raised |-> "none", value |-> parsed.value]

(***************************************************************************)
(* MarketTrendAgent.execute: the same steps with the trend object; here    *)
(* "OBJ" is the text of the JSON object the trend prompt asks for.         *)
(***************************************************************************)
TrendFields(tag, trend, demand, growth, areas, insights) ==
    [tag |-> tag, price_trend |-> trend, demand_level |-> demand,
     growth_prediction |-> growth, hot_areas |-> areas, insights |-> insights]
NoTrend == TrendFields("None", "", "", 0, <<>>, "")
TrendObject ==
    TrendFields("dict", "rising", "high", 8, <<"Baner">>, "Strong demand.")
FenceTrend ==
    TrendFields("dict", "rising", "high", 8, <<"Baner">>, "See FENCE below.")

\* The object json.loads returns for the text of a trend object.
TrendValue(v) ==
    CASE v = FenceObject -> FenceTrend
      [] OTHER -> TrendObject

\* MarketTrendAgent._get_default_trends
FallbackInsights ==
    "Unable to generate market trend analysis. Please try again or consult with a real estate market analyst."
DefaultTrends == TrendFields("dict", "stable", "medium", 0, <<>>, FallbackInsights)

TrendExecute(reply) ==
    IF reply.kind \in {"raise", "notext"}
    THEN [raised |-> "none", value |-> DefaultTrends]
    ELSE LET parsed == JsonLoads(ResultText(reply.text))
         IN IF ~parsed.ok
            THEN \* except json.JSONDecodeError
                 [raised |-> "none", value |-> DefaultTrends]
            ELSE IF parsed.value.tag # "dict"
            THEN \* result.get raises AttributeError: except Exception
                 [raised |-> "none", value |-> DefaultTrends]
            ELSE [raised |-> "none", value |-> TrendValue(parsed.value)]

(***************************************************************************)
(* The cache gateway.  Python values and their JSON texts are named by     *)
(* their literals; "nil" is the store's answer for an absent key.          *)
(***************************************************************************)
CacheKeys == {"search:city:Pune", "trend:city:Pune"}
CachePatterns == {"search:*", "*"}
CacheValues == {"{'a': 1}", "0", "''", "(1, 2)", "object()"}
\* Seconds to live a caller passes; the store refuses a time of 0.
CacheTtls == {0, 1, 3600}

\* redis KEYS pattern matching, for the patterns above.
Matches(pattern, key) ==
    \/ pattern = "*"
    \/ pattern = "search:*" /\ key = "search:city:Pune"

\* json.dumps: the JSON text, or TypeError for a value that has none.
JsonDumps(v) ==
    CASE v = "{'a': 1}" -> [ok |-> TRUE, text |-> "{\"a\": 1}"]
      [] v = "0" -> [ok |-> TRUE, text |-> "0"]
      [] v = "''" -> [ok |-> TRUE, text |-> "\"\""]
      [] v = "(1, 2)" -> [ok |-> TRUE, text |-> "[1, 2]"]   \* a tuple: an array
      [] OTHER -> [ok |-> FALSE, text |-> ""]

\* json.loads of a stored text.
JsonLoadsStored(text) ==
    CASE text = "{\"a\": 1}" -> "{'a': 1}"
      [] text = "0" -> "0"
      [] text = "\"\"" -> "''"
      [] text = "[1, 2]" -> "[1, 2]"                         \* an array: a list
      [] OTHER -> "None"

\* An entry of the store: its text and the seconds it still has to live.
Absent == [text |-> "nil", ttl |-> 0]
EmptyStore == [k \in CacheKeys |-> Absent]

\* What redis.from_url and ping can do in the constructor.
ConnectOutcomes == {"ok", "ConnectionError", "TimeoutError", "OtherError"}

\* The constructor without self.enabled = False in its except clause.
CacheConstructStaysEnabled(enable_cache, conn) ==
    IF ~enable_cache
    THEN [state |-> "ready", enabled |-> FALSE, client |-> FALSE]
    ELSE IF conn = "ok"
    THEN [state |-> "ready", enabled |-> TRUE, client |-> TRUE]
    ELSE IF conn \in {"ConnectionError", "TimeoutError"}
    THEN [state |-> "ready", enabled |-> TRUE, client |-> FALSE]
    ELSE [state |-> "raised", enabled |-> TRUE, client |-> FALSE]

\* CacheService.__init__: the object, or "raised" when the constructor lets
\* an exception through.
CacheConstruct(enable_cache, conn) ==
    IF ~enable_cache
    THEN [state |-> "ready", enabled |-> FALSE, client |-> FALSE]
    ELSE IF conn = "ok"
    THEN [state |-> "ready", enabled |-> TRUE, client |-> TRUE]
    ELSE IF conn \in {"ConnectionError", "TimeoutError"}
    THEN \* except (redis.ConnectionError, redis.TimeoutError)
         [state |-> "ready", enabled |-> FALSE, client |-> FALSE]
    ELSE \* any other exception leaves the constructor
         [state |-> "raised", enabled |-> TRUE, client |-> FALSE]

\* The guard every operation starts with.
CacheOff(c) == ~c.enabled \/ ~c.client

\* CacheService.get: the value returned.
CacheGetValue(c, st, key, storeFails) ==
    IF CacheOff(c) THEN "None"
    ELSE IF storeFails THEN "None"                  \* except Exception
    ELSE IF st[key].text \notin {"nil", ""}          \* if value:
    THEN JsonLoadsStored(st[key].text)
    ELSE "None"

\* CacheService.set: the store afterwards.
CacheSetStore(c, st, key, value, ttl, storeFails) ==
    IF CacheOff(c) THEN st
    ELSE IF ~JsonDumps(value).ok THEN st            \* json.dumps raises
    ELSE IF storeFails \/ ttl <= 0 THEN st          \* setex raises
    ELSE [st EXCEPT ![key] = [text |-> JsonDumps(value).text, ttl |-> ttl]]

\* CacheService.delete: the store afterwards.
CacheDeleteStore(c, st, key, storeFails) ==
    IF CacheOff(c) \/ storeFails THEN st
    ELSE [st EXCEPT ![key] = Absent]

\* CacheService.invalidate_pattern: the store afterwards.
CacheInvalidateStore(c, st, pattern, storeFails) ==
    IF CacheOff(c) \/ storeFails THEN st
    ELSE [k \in CacheKeys |-> IF Matches(pattern, k) THEN Absent ELSE st[k]]

\* CacheService.clear_all: the store afterwards.
CacheClearStore(c, st, storeFails) ==
    IF CacheOff(c) \/ storeFails THEN st ELSE EmptyStore

\* Calls an operation makes to the store client.
StoreCalls(c) == IF CacheOff(c) THEN 0 ELSE 1

\* logger.error calls of get, delete, invalidate_pattern and clear_all: one
\* when the store raises.
CacheErrors(c, storeFails) == IF ~CacheOff(c) /\ storeFails THEN 1 ELSE 0

\* logger.error calls of CacheService.set: one when json.dumps or setex
\* raises.
CacheSetErrors(c, value, ttl, storeFails) ==
    IF CacheOff(c) THEN 0
    ELSE IF ~JsonDumps(value).ok \/ storeFails \/ ttl <= 0 THEN 1 ELSE 0

\* The store a second later: an entry that has no time left is gone.
StoreAfterSecond(st) ==
    [k \in CacheKeys |->
        IF st[k].text = "nil" \/ st[k].ttl <= 1 THEN Absent
        ELSE [st[k] EXCEPT !.ttl = @ - 1]]

(***************************************************************************)
(* CacheService.generate_key(prefix, **kwargs).  The keyword arguments are *)
(* a sequence of name/value pairs in the order the caller wrote them, the  *)
(* names distinct.                                                         *)
(***************************************************************************)
\* The parameter names, in the order Python's string comparison gives them.
NameOrder == <<"city", "max_price", "property_type">>
NameIndex(name) == CHOOSE i \in DOMAIN NameOrder : NameOrder[i] = name

\* Values a caller passes: strings, floats (in tenths) and ints.
KeyValues ==
    [name : {"city"}, kind : {"str"},
     s : {"Pune", "Goa", "Pune:max_price:5.0"}, n : {0}]
    \cup [name : {"max_price"}, kind : {"float"}, s : {""}, n : {50}]
    \cup [name : {"max_price"}, kind : {"int"}, s : {""}, n : {5}]
    \cup [name : {"property_type"}, kind : {"str"}, s : {"Flat"}, n : {0}]
KeyPrefixes == {"search", "trend"}

\* The keyword-argument lists: sequences of pairs with distinct names.
KwargLists ==
    {kw \in SeqsUpTo(KeyValues, Len(NameOrder)) :
        \A i, j \in DOMAIN kw : i # j => kw[i].name # kw[j].name}

\* f"{value}"
FormatValue(v) ==
    CASE v.kind = "str" -> v.s
      [] v.kind = "float" /\ v.n = 50 -> "5.0"
      [] v.kind = "int" /\ v.n = 5 -> "5"
      [] OTHER -> "?"

\* sorted(kwargs.items()): the pairs in ascending order of their names.
RECURSIVE InsertPair(_, _)
InsertPair(pair, sorted) ==
    IF sorted = <<>> THEN <<pair>>
    ELSE IF NameIndex(pair.name) < NameIndex(Head(sorted).name)
    THEN <<pair>> \o sorted
    ELSE <<Head(sorted)>> \o InsertPair(pair, Tail(sorted))
RECURSIVE SortedItems(_)
SortedItems(kwargs) ==
    IF kwargs = <<>> THEN <<>>
    ELSE InsertPair(Head(kwargs), SortedItems(Tail(kwargs)))

\* ":".join(parts)
RECURSIVE Join(_)
Join(parts) ==
    IF Len(parts) = 1 THEN parts[1]
    ELSE parts[1] \o ":" \o Join(Tail(parts))

\* The parts one pair after the other contributes: f"{key}:{value}".
KeyParts(items) ==
    [i \in DOMAIN items |-> items[i].name \o ":" \o FormatValue(items[i])]

\* generate_key taking the pairs in the order they were supplied.
GenerateKeyUnsorted(prefix, kwargs) ==
    Join(<<prefix>> \o KeyParts(kwargs))

GenerateKey(prefix, kwargs) ==
    Join(<<prefix>> \o KeyParts(SortedItems(kwargs)))

(***************************************************************************)
(* The persistence layer.  A session is the tables as committed so far     *)
(* plus the state of the Session object: a flush that fails inside         *)
(* db.commit() rolls the transaction back and leaves the Session inactive  *)
(* until db.rollback() is called; every later db.commit() on it raises     *)
(* PendingRollbackError.                                                   *)
(***************************************************************************)
RECURSIVE MaxId(_)
MaxId(rows) ==
    IF rows = <<>> THEN 0
    ELSE LET m == MaxId(Tail(rows))
         IN IF Head(rows).id > m THEN Head(rows).id ELSE m

\* The integer primary key SQLite assigns: one more than the largest stored.
NextId(rows) == MaxId(rows) + 1

\* SessionLocal = sessionmaker(autocommit=False, autoflush=False, ...):
\* expire_on_commit keeps its default.  get_db_context commits and closes
\* the session when its block ends; the commit expires every instance the
\* session loaded, and reading an attribute of an expired instance of a
\* closed session raises DetachedInstanceError.
ExpireOnCommit == TRUE

\* created_at and timestamp are server_default func.now(): the database
\* clock at the INSERT, in whole seconds.
NewSession(tables) ==
    [rows |-> tables.properties, hist |-> tables.search_history,
     analyses |-> tables.investment_analyses,
     poisoned |-> FALSE, now |-> now]

\* PropertyCRUD.create: Property(**property_data); db.add; db.commit.
PropertyCreate(sess, data) ==
    IF data.extra
    THEN \* Property(**property_data): TypeError, an invalid keyword argument
         [sess |-> sess, raised |-> "TypeError"]
    ELSE IF sess.poisoned
    THEN \* db.commit() on an inactive transaction
         [sess |-> sess, raised |-> "PendingRollbackError"]
    ELSE IF data.city = "missing"
    THEN \* city is nullable=False: the INSERT fails in the flush
         [sess |-> [sess EXCEPT !.poisoned = TRUE],
          raised |-> "IntegrityError"]
    ELSE [sess |-> [sess EXCEPT
                      !.rows = Append(@, [id |-> NextId(sess.rows),
                                          building_name |-> data.building_name,
                                          property_type |-> data.property_type,
                                          city |-> data.city,
                                          price |-> data.price,
                                          created_at |-> sess.now])],
          raised |-> "none"]

\* SearchHistoryCRUD.create: db.add; db.commit.
SearchHistoryCreate(sess, city, property_type, max_price, results_count) ==
    IF sess.poisoned
    THEN [sess |-> sess, raised |-> "PendingRollbackError"]
    ELSE [sess |-> [sess EXCEPT
                      !.hist = Append(@, [id |-> NextId(sess.hist),
                                          city |-> city,
                                          property_type |-> property_type,
                                          max_price |-> max_price,
                                          results_count |-> results_count,
                                          timestamp |-> sess.now])],
          raised |-> "none"]

\* The dictionaries a caller passes to PropertyCRUD.create: city "missing"
\* is a dictionary without that key.
PropertyDicts ==
    {[building_name |-> "B1", property_type |-> "Flat", city |-> "Pune",
      price |-> PriceNum(30), extra |-> FALSE],
     [building_name |-> "B2", property_type |-> "Individual House",
      city |-> "Goa", price |-> PriceNum(80), extra |-> FALSE],
     [building_name |-> "B3", property_type |-> "Flat", city |-> "",
      price |-> PriceNum(-10), extra |-> FALSE],
     [building_name |-> "B4", property_type |-> "Flat", city |-> "Pune",
      price |-> PriceText, extra |-> FALSE],
     [building_name |-> "B5", property_type |-> "Flat", city |-> "missing",
      price |-> PriceNum(30), extra |-> FALSE],
     [building_name |-> "B6", property_type |-> "Flat", city |-> "missing",
      price |-> PriceNum(30), extra |-> TRUE]}

\* An optional float argument: None or a number (in tenths).
NoFloat == [some |-> FALSE, n |-> 0]
SomeFloat(n) == [some |-> TRUE, n |-> n]

\* The arguments of PropertyCRUD.search.
SearchCities == {PyNone, PyStr(""), PyStr("Pune")}
SearchTypes == {PyNone, PyStr("Flat")}
SearchPrices == {NoFloat, SomeFloat(0), SomeFloat(50)}
SearchArgs ==
    [city : SearchCities, property_type : SearchTypes,
     max_price : SearchPrices, limit : {100}]
    \cup [city : {PyNone, PyStr("Pune")}, property_type : {PyNone},
          max_price : {NoFloat}, limit : {1, 100}]

\* Property.price <= max_price as SQLite evaluates it: a stored text is
\* larger than every number.
PriceAtMost(price, n) == price.kind = "float" /\ price.n <= n

\* The rows the filters of PropertyCRUD.search keep: a filter is added only
\* when its argument is truthy.
SearchFilter(rows, city, property_type, max_price) ==
    SelectSeq(rows, LAMBDA row :
        /\ Truthy(city) => row.city = city.s
        /\ Truthy(property_type) => row.property_type = property_type.s
        /\ (max_price.some /\ max_price.n # 0) =>
               PriceAtMost(row.price, max_price.n))

\* order_by(desc(created_at)): every ordering of the rows in which no row
\* precedes a newer one; rows of the same second come in any order.
NewestFirst(rows) ==
    {o \in Orderings(rows) :
        \A i, j \in DOMAIN o : i < j => o[i].created_at >= o[j].created_at}

\* order_by(desc(timestamp)) answered by a sort: rows of equal timestamp
\* in any order.
RecentFirstUnindexed(rows) ==
    {o \in Orderings(rows) :
        \A i, j \in DOMAIN o : i < j => o[i].timestamp >= o[j].timestamp}

\* order_by(desc(SearchHistory.timestamp)): the column is indexed, the
\* engine walks the index backwards, and rows of equal timestamp come in
\* descending order of their id.
RecentFirst(rows) ==
    {o \in Orderings(rows) :
        \A i, j \in DOMAIN o :
            i < j => \/ o[i].timestamp > o[j].timestamp
                     \/ /\ o[i].timestamp = o[j].timestamp
                        /\ o[i].id > o[j].id}

\* limit(n)
Take(rows, n) == SubSeq(rows, 1, IF n < Len(rows) THEN n ELSE Len(rows))

\* SearchHistoryCRUD.get_recent: the lists the query can return.
GetRecent(hist, limit) == {Take(o, limit) : o \in RecentFirst(hist)}

\* PropertyCRUD.search: the lists the query can return.
PropertySearch(rows, city, property_type, max_price, limit) ==
    {Take(o, limit) :
        o \in NewestFirst(SearchFilter(rows, city, property_type, max_price))}

\* PropertyCRUD.get_by_id: the rows with that id (at most one).
PropertyGetById(rows, property_id) ==
    SelectSeq(rows, LAMBDA row : row.id = property_id)

\* The dictionaries a caller passes to PropertyCRUD.update, one key each;
\* s = "missing" is the value None, key "bogus" names no column.
PropertyUpdates ==
    {[key |-> "city", s |-> "Goa", price |-> PriceNum(0)],
     [key |-> "city", s |-> "", price |-> PriceNum(0)],
     [key |-> "city", s |-> "missing", price |-> PriceNum(0)],
     [key |-> "price", s |-> "", price |-> PriceNum(-10)],
     [key |-> "bogus", s |-> "", price |-> PriceNum(0)]}

\* setattr(property_obj, key, value)
SetAttr(row, u) ==
    CASE u.key = "city" -> [row EXCEPT !.city = u.s]
      [] u.key = "price" -> [row EXCEPT !.price = u.price]
      [] OTHER -> row

\* PropertyCRUD.update: get_by_id; setattr for each key; db.commit.
PropertyUpdate(sess, property_id, u) ==
    IF PropertyGetById(sess.rows, property_id) = <<>>
    THEN [sess |-> sess, raised |-> "none", ret |-> "None"]
    ELSE IF u.key = "city" /\ u.s = "missing"
    THEN \* UPDATE ... SET city = NULL: city is nullable=False
         [sess |-> [sess EXCEPT !.poisoned = TRUE],
          raised |-> "IntegrityError", ret |-> "None"]
    ELSE [sess |-> [sess EXCEPT
                      !.rows = [i \in DOMAIN sess.rows |->
                                  IF sess.rows[i].id = property_id
                                  THEN SetAttr(sess.rows[i], u)
                                  ELSE sess.rows[i]]],
          raised |-> "none", ret |-> "row"]

\* The analyses the relationship Property.investment_analyses loads.
AnalysesOf(analyses, property_id) ==
    SelectSeq(analyses, LAMBDA a : a.property_id = property_id)

\* PropertyCRUD.delete with a property_id column that accepts NULL: the
\* analyses of the property lose their reference and the property goes.
PropertyDeleteNullsAnalyses(sess, property_id) ==
    IF PropertyGetById(sess.rows, property_id) = <<>>
    THEN [sess |-> sess, raised |-> "none", ret |-> "False"]
    ELSE [sess |-> [sess EXCEPT
                      !.rows = SelectSeq(@, LAMBDA row : row.id # property_id),
                      !.analyses = [i \in DOMAIN sess.analyses |->
                                      IF sess.analyses[i].property_id = property_id
                                      THEN [sess.analyses[i] EXCEPT
                                               !.property_id = 0]
                                      ELSE sess.analyses[i]]],
          raised |-> "none", ret |-> "True"]

\* PropertyCRUD.delete: get_by_id; db.delete; db.commit.  The relationship
\* has no delete cascade: the flush first sets property_id of the
\* property's analyses to NULL, which the NOT NULL column refuses.
PropertyDelete(sess, property_id) ==
    IF PropertyGetById(sess.rows, property_id) = <<>>
    THEN [sess |-> sess, raised |-> "none", ret |-> "False"]
    ELSE IF AnalysesOf(sess.analyses, property_id) # <<>>
    THEN [sess |-> [sess EXCEPT !.poisoned = TRUE],
          raised |-> "IntegrityError", ret |-> "None"]
    ELSE [sess |-> [sess EXCEPT
                      !.rows = SelectSeq(@, LAMBDA row : row.id # property_id)],
          raised |-> "none", ret |-> "True"]

\* The keyword arguments InvestmentAnalysis(**analysis_data) accepts.
AnalysisColumns ==
    {"property_id", "roi_5year", "roi_10year", "appreciation_rate",
     "rental_yield", "risk_score", "recommendation", "analysis_text"}

\* The dictionary the investment tab builds: property_id, every key of the
\* result but 'analysis', and analysis_text.
AnalysisData(property_id, result) ==
    [property_id |-> property_id,
     keys |-> {"property_id", "analysis_text"} \cup (result.keys \ {"analysis"}),
     result |-> result]

\* The dictionaries a caller passes to InvestmentAnalysisCRUD.create.
AnalysisDicts ==
    {AnalysisData(id, DefaultAnalysis) : id \in 1..MaxStored}
    \cup {[AnalysisData(1, DefaultAnalysis) EXCEPT
              !.keys = @ \cup {"confidence"}]}

\* InvestmentAnalysisCRUD.create: InvestmentAnalysis(**analysis_data);
\* db.add; db.commit.  SQLite does not check the foreign key (the engine
\* is created without PRAGMA foreign_keys).
InvestmentAnalysisCreate(sess, data) ==
    IF ~(data.keys \subseteq AnalysisColumns)
    THEN \* TypeError: an invalid keyword argument
         [sess |-> sess, raised |-> "TypeError"]
    ELSE IF sess.poisoned
    THEN [sess |-> sess, raised |-> "PendingRollbackError"]
    ELSE [sess |-> [sess EXCEPT
                      !.analyses = Append(@, [id |-> NextId(sess.analyses),
                                              property_id |-> data.property_id,
                                              result |-> data.result,
                                              created_at |-> sess.now])],
          raised |-> "none"]

\* InvestmentAnalysisCRUD.get_all_for_property: the lists the query can
\* return.
GetAllForProperty(analyses, property_id) ==
    NewestFirst(AnalysesOf(analyses, property_id))

\* InvestmentAnalysisCRUD.get_by_property_id: .first() of the same query,
\* as a list of no row (None) or one.
GetByPropertyId(analyses, property_id) ==
    {Take(o, 1) : o \in NewestFirst(AnalysesOf(analyses, property_id))}

\* The loop of the search tab: each create in its own try/except, a failure
\* shown with st.warning.
RECURSIVE SaveProperties(_, _)
SaveProperties(props, acc) ==
    IF props = <<>> THEN acc
    ELSE LET c == PropertyCreate(acc.sess, Head(props))
         IN SaveProperties(Tail(props),
                [sess |-> c.sess,
                 warnings |-> acc.warnings + (IF c.raised = "none" THEN 0 ELSE 1),
                 log |-> Append(acc.log, "save_property")])

\* The "Save to database" block of the search tab, inside get_db_context:
\* all property saves, then the history row.  An exception that leaves the
\* block makes get_db_context roll back what is not committed and re-raise.
SaveSearch(req, props, tables) ==
    LET saved == SaveProperties(props.items,
                     [sess |-> NewSession(tables),
                      warnings |-> 0, log |-> <<>>])
        h == SearchHistoryCreate(saved.sess, req.city, req.property_type,
                                 req.max_price, Len(props.items))
    IN [properties |-> h.sess.rows,
        search_history |-> h.sess.hist,
        warnings |-> saved.warnings,
        log |-> Append(saved.log, "save_history"),
        raised |-> h.raised]

(***************************************************************************)
(* API keys.  A key is a string, "" when the field is left empty or the    *)
(* environment variable is not set (None and "" are both falsy).           *)
(***************************************************************************)
ApiKeys == {"", "key-A", "key-B"}
NoKeys == [gemini |-> "", firecrawl |-> ""]

\* Python's a or b on strings.
PyOr(a, b) == IF a # "" THEN a ELSE b

\* SearchAgent.__init__: the keys handed to ScrapingService and AIService;
\* settings holds what the environment sets.
SearchAgentKeys(user, settings) ==
    [gemini |-> PyOr(user.gemini, settings.gemini),
     firecrawl |-> PyOr(user.firecrawl, settings.firecrawl)]

\* InvestmentAgent.__init__ and MarketTrendAgent.__init__: the key handed
\* to genai.configure.
StructAgentKey(gemini_key, settings_key) == PyOr(gemini_key, settings_key)

\* get_api_key and get_firecrawl_key of the single-file applications.
GetApiKey(env_key, session_key) == PyOr(env_key, session_key)

(***************************************************************************)
(* The record of the last operation.                                       *)
(***************************************************************************)
NoRequest == [city |-> "", max_price |-> 0, property_type |-> ""]
Tables ==
    [properties |-> properties, search_history |-> search_history,
     investment_analyses |-> investment_analyses]

Idle ==
    [op |-> "none", req |-> NoRequest, outcome |-> "none",
     scrape |-> ScrapeNotDict, model |-> NoModel,
     props |-> PyNone, analysis |-> PyNone,
     reply |-> NoReply, inv |-> NoResult,
     key |-> "", ret |-> "None", storeCalls |-> 0,
     value |-> "None", ttl |-> 0, errors |-> 0,
     user |-> NoKeys, env |-> NoKeys, used |-> NoKeys,
     prefix |-> "", kwargs |-> <<>>,
     id |-> 0, city |-> PyNone, property_type |-> PyNone,
     max_price |-> NoFloat, limit |-> 0,
     data |-> <<>>, rows |-> <<>>, trend |-> NoTrend,
     log |-> <<>>, warnings |-> 0,
     pre |-> [properties |-> <<>>, search_history |-> <<>>,
              investment_analyses |-> <<>>]]

(***************************************************************************)
(* The search tab of the dashboard (the "Start Search" button).            *)
(***************************************************************************)
SearchTabResult(req, gemini_key, firecrawl_key, r, m, tables) ==
    IF req.city = ""
    THEN [outcome |-> "rejected_city", props |-> PyNone, analysis |-> PyNone,
          scrape |-> ScrapeNotDict, asked |-> NoModel,
          log |-> <<>>, warnings |-> 0,
          properties |-> tables.properties,
          search_history |-> tables.search_history]
    ELSE IF ~gemini_key \/ ~firecrawl_key
    THEN [outcome |-> "rejected_keys", props |-> PyNone, analysis |-> PyNone,
          scrape |-> ScrapeNotDict, asked |-> NoModel,
          log |-> <<>>, warnings |-> 0,
          properties |-> tables.properties,
          search_history |-> tables.search_history]
    ELSE LET result == Execute(req, r, m)
         IN IF Truthy(result.properties)
            THEN LET db == SaveSearch(req, result.properties, tables)
                 IN [outcome |-> IF db.raised = "none" THEN "ok" ELSE "error",
                     props |-> result.properties,
                     analysis |-> result.analysis,
                     scrape |-> r, asked |-> result.asked,
                     log |-> result.log \o db.log,
                     warnings |-> db.warnings,
                     properties |-> db.properties,
                     search_history |-> db.search_history]
            ELSE [outcome |-> "ok",
                  props |-> result.properties,
                  analysis |-> result.analysis,
                  scrape |-> r, asked |-> result.asked,
                  log |-> result.log, warnings |-> 0,
                  properties |-> tables.properties,
                  search_history |-> tables.search_history]

SearchTabStep(req, gemini_key, firecrawl_key, r, m) ==
    \E out \in {SearchTabResult(req, gemini_key, firecrawl_key, r, m, Tables)} :
       /\ Len(out.properties) <= MaxStored
       /\ Len(out.search_history) <= MaxHistory
       /\ properties' = out.properties
       /\ search_history' = out.search_history
       /\ last' = [Idle EXCEPT
                     !.op = "search_tab", !.req = req,
                     !.outcome = out.outcome,
                     !.scrape = out.scrape, !.model = out.asked,
                     !.props = out.props, !.analysis = out.analysis,
                     !.log = out.log, !.warnings = out.warnings,
                     !.pre = Tables]
       /\ UNCHANGED <<investment_analyses, cache, store, now>>

\* The providers answer only when the handler gets as far as calling them.
SearchTab(req, gemini_key, firecrawl_key) ==
    IF req.city = "" \/ ~gemini_key \/ ~firecrawl_key
    THEN SearchTabStep(req, gemini_key, firecrawl_key, ScrapeNotDict, NoModel)
    ELSE \E r \in ScrapeResps, m \in ModelResps :
             SearchTabStep(req, gemini_key, firecrawl_key, r, m)

(***************************************************************************)
(* The investment tab (the "Analyze Investment" button).  listed is the    *)
(* list PropertyCRUD.search(db, limit=50) returned in a session that is    *)
(* closed before the list is used; index is the position selected.         *)
(***************************************************************************)
\* The key of property_options: name, city and the price formatted ,.0f.
OptionLabel(p) == <<p.building_name, p.city, p.price>>

\* property_options[selected_prop_name]: of the properties with the label
\* selected, the one listed last.
SelectedProperty(listed, index) ==
    LET same == SelectSeq(listed, LAMBDA p :
                    OptionLabel(p) = OptionLabel(listed[index]))
    IN same[Len(same)]

InvestTabResult(listed, index, gemini_key, reply, tables) ==
    LET stop(outcome) ==
            [outcome |-> outcome, id |-> 0, inv |-> NoResult, log |-> <<>>,
             investment_analyses |-> tables.investment_analyses]
    IN IF listed = <<>>
       THEN stop("no_properties")          \* st.warning
       ELSE IF ExpireOnCommit
       THEN \* p.building_name of an expired instance, outside any try
            stop("DetachedInstanceError")
       ELSE IF \E i \in DOMAIN listed : listed[i].price.kind = "str"
       THEN stop("ValueError")             \* format code ,.0f of a str
       ELSE IF ~gemini_key
       THEN stop("rejected_keys")
       ELSE LET selected == SelectedProperty(listed, index)
                result == InvestExecute(reply).value
                db == InvestmentAnalysisCreate(NewSession(tables),
                          AnalysisData(selected.id, result))
            IN [outcome |-> IF db.raised = "none" THEN "ok" ELSE "error",
                id |-> selected.id, inv |-> result,
                log |-> <<"model", "save_analysis">>,
                investment_analyses |-> db.sess.analyses]

InvestTabStep(listed, index, gemini_key, reply) ==
    \E out \in {InvestTabResult(listed, index, gemini_key, reply, Tables)} :
       /\ Len(out.investment_analyses) <= MaxAnalyses
       /\ investment_analyses' = out.investment_analyses
       /\ last' = [Idle EXCEPT
                     !.op = "invest_tab", !.outcome = out.outcome,
                     !.rows = listed, !.id = out.id,
                     !.reply = IF out.log = <<>> THEN NoReply ELSE reply,
                     !.inv = out.inv, !.log = out.log,
                     !.pre = Tables]
       /\ UNCHANGED <<properties, search_history, cache, store, now>>

\* The model answers only when the handler gets as far as calling it.
InvestTab(gemini_key, Replies) ==
    \E listed \in PropertySearch(properties, PyNone, PyNone, NoFloat, 50) :
       IF listed = <<>> \/ ExpireOnCommit
       THEN InvestTabStep(listed, 1, gemini_key, NoReply)
       ELSE \E index \in DOMAIN listed, reply \in Replies :
                InvestTabStep(listed, index, gemini_key, reply)

(***************************************************************************)
(* The market trends tab (the "Analyze Market Trends" button).             *)
(***************************************************************************)
\* The trends tab recording its request in search_history as a search does.
TrendTabStepRecorded(trend_city, gemini_key, reply) ==
    \E h \in {SearchHistoryCreate(NewSession(Tables), trend_city, "All",
                                  0, 0)} :
       /\ Len(h.sess.hist) <= MaxHistory
       /\ search_history' = h.sess.hist
       /\ last' = [Idle EXCEPT
                     !.op = "trend_tab", !.outcome = "ok",
                     !.req = [NoRequest EXCEPT !.city = trend_city],
                     !.reply = reply,
                     !.trend = TrendExecute(reply).value,
                     !.log = <<"model">>,
                     !.pre = Tables]
       /\ UNCHANGED <<properties, investment_analyses, cache, store, now>>

TrendTabStep(trend_city, gemini_key, reply) ==
    \E out \in {IF trend_city = "" THEN [outcome |-> "rejected_city",
                                          trend |-> NoTrend, log |-> <<>>]
                ELSE IF ~gemini_key THEN [outcome |-> "rejected_keys",
                                          trend |-> NoTrend, log |-> <<>>]
                ELSE [outcome |-> "ok", trend |-> TrendExecute(reply).value,
                      log |-> <<"model">>]} :
       /\ last' = [Idle EXCEPT
                     !.op = "trend_tab", !.outcome = out.outcome,
                     !.req = [NoRequest EXCEPT !.city = trend_city],
                     !.reply = IF out.log = <<>> THEN NoReply ELSE reply,
                     !.trend = out.trend, !.log = out.log,
                     !.pre = Tables]
       /\ UNCHANGED <<properties, search_history, investment_analyses,
                      cache, store, now>>

TrendTab(trend_city, gemini_key, Replies) ==
    IF trend_city = "" \/ ~gemini_key
    THEN TrendTabStep(trend_city, gemini_key, NoReply)
    ELSE \E reply \in Replies : TrendTabStep(trend_city, gemini_key, reply)

(***************************************************************************)
(* The search history tab: the list of recent searches is loaded in a      *)
(* session that is closed before the list is shown.                        *)
(***************************************************************************)
HistoryTab ==
    \E history \in GetRecent(search_history, 20) :
       /\ last' = [Idle EXCEPT
                     !.op = "history_tab",
                     !.outcome = IF history = <<>> THEN "no_history"
                                 ELSE IF ExpireOnCommit
                                 THEN "DetachedInstanceError" ELSE "ok",
                     !.rows = history,
                     !.pre = Tables]
       /\ UNCHANGED <<properties, search_history, investment_analyses,
                      cache, store, now>>

(***************************************************************************)
(* A call of SearchAgent.execute by any other caller.                      *)
(***************************************************************************)
AgentExecute(req, r, m) ==
    \E result \in {Execute(req, r, m)} :
       /\ last' = [Idle EXCEPT
                     !.op = "execute", !.req = req,
                     !.outcome = IF result.raised = "none"
                                 THEN "returned" ELSE result.raised,
                     !.scrape = r, !.model = result.asked,
                     !.props = result.properties,
                     !.analysis = result.analysis,
                     !.log = result.log,
                     !.pre = Tables]
       /\ UNCHANGED <<properties, search_history, investment_analyses,
                      cache, store, now>>


(***************************************************************************)
(* A call of InvestmentAgent.execute.                                      *)
(***************************************************************************)
AgentInvest(reply) ==
    \E result \in {InvestExecute(reply)} :
       /\ last' = [Idle EXCEPT
                     !.op = "invest_execute",
                     !.outcome = IF result.raised = "none"
                                 THEN "returned" ELSE result.raised,
                     !.reply = reply,
                     !.inv = result.value,
                     !.log = <<"model">>,
                     !.pre = Tables]
       /\ UNCHANGED <<properties, search_history, investment_analyses,
                      cache, store, now>>

(***************************************************************************)
(* A call of MarketTrendAgent.execute.                                     *)
(***************************************************************************)
AgentTrend(reply) ==
    \E result \in {TrendExecute(reply)} :
       /\ last' = [Idle EXCEPT
                     !.op = "trend_execute",
                     !.outcome = IF result.raised = "none"
                                 THEN "returned" ELSE result.raised,
                     !.reply = reply,
                     !.trend = result.value,
                     !.log = <<"model">>,
                     !.pre = Tables]
       /\ UNCHANGED <<properties, search_history, investment_analyses,
                      cache, store, now>>

(***************************************************************************)
(* The cache gateway's constructor and operations.                         *)
(***************************************************************************)
CacheInit(enable_cache, conn) ==
    /\ cache' = CacheConstruct(enable_cache, conn)
    /\ last' = [Idle EXCEPT
                  !.op = "cache_init",
                  !.outcome = IF cache'.state = "raised" THEN "raised"
                              ELSE "returned",
                  !.pre = Tables]
    /\ UNCHANGED <<properties, search_history, investment_analyses, store, now>>

CacheGet(key, storeFails) ==
    /\ cache.state = "ready"
    /\ last' = [Idle EXCEPT
                  !.op = "cache_get", !.outcome = "returned", !.key = key,
                  !.errors = CacheErrors(cache, storeFails),
                  !.ret = CacheGetValue(cache, store, key, storeFails),
                  !.storeCalls = StoreCalls(cache),
                  !.pre = Tables]
    /\ UNCHANGED <<properties, search_history, investment_analyses,
                   cache, store, now>>

CacheSet(key, value, ttl, storeFails) ==
    /\ cache.state = "ready"
    /\ store' = CacheSetStore(cache, store, key, value, ttl, storeFails)
    /\ last' = [Idle EXCEPT
                  !.op = "cache_set", !.outcome = "returned", !.key = key,
                  !.value = value, !.ttl = ttl,
                  !.errors = CacheSetErrors(cache, value, ttl, storeFails),
                  !.storeCalls = IF JsonDumps(value).ok
                                 THEN StoreCalls(cache) ELSE 0,
                  !.pre = Tables]
    /\ UNCHANGED <<properties, search_history, investment_analyses, cache, now>>

CacheDelete(key, storeFails) ==
    /\ cache.state = "ready"
    /\ store' = CacheDeleteStore(cache, store, key, storeFails)
    /\ last' = [Idle EXCEPT
                  !.op = "cache_delete", !.outcome = "returned", !.key = key,
                  !.errors = CacheErrors(cache, storeFails),
                  !.storeCalls = StoreCalls(cache),
                  !.pre = Tables]
    /\ UNCHANGED <<properties, search_history, investment_analyses, cache, now>>

CacheInvalidatePattern(pattern, storeFails) ==
    /\ cache.state = "ready"
    /\ store' = CacheInvalidateStore(cache, store, pattern, storeFails)
    /\ last' = [Idle EXCEPT
                  !.op = "cache_invalidate", !.outcome = "returned",
                  !.errors = CacheErrors(cache, storeFails),
                  !.key = pattern,
                  !.storeCalls = StoreCalls(cache),
                  !.pre = Tables]
    /\ UNCHANGED <<properties, search_history, investment_analyses, cache, now>>

CacheClearAll(storeFails) ==
    /\ cache.state = "ready"
    /\ store' = CacheClearStore(cache, store, storeFails)
    /\ last' = [Idle EXCEPT
                  !.op = "cache_clear", !.outcome = "returned",
                  !.errors = CacheErrors(cache, storeFails),
                  !.storeCalls = StoreCalls(cache),
                  !.pre = Tables]
    /\ UNCHANGED <<properties, search_history, investment_analyses, cache, now>>

\* A second passes in the store.
CacheExpire ==
    /\ now < MaxClock
    /\ now' = now + 1
    /\ store' = StoreAfterSecond(store)
    /\ UNCHANGED <<properties, search_history, investment_analyses,
                   cache, last>>

\* The static method generate_key: no object, no store.
CacheGenerateKey(prefix, kwargs) ==
    /\ last' = [Idle EXCEPT
                  !.op = "generate_key", !.outcome = "returned",
                  !.prefix = prefix, !.kwargs = kwargs,
                  !.key = GenerateKey(prefix, kwargs),
                  !.pre = Tables]
    /\ UNCHANGED <<properties, search_history, investment_analyses,
                   cache, store, now>>

(***************************************************************************)
(* The persistence layer called on its own, each call in a session of its  *)
(* own (with get_db_context() as db): an exception rolls back and leaves   *)
(* the tables as they were.                                                *)
(***************************************************************************)
\* A second passes on the database clock.
Tick ==
    /\ now < MaxClock
    /\ now' = now + 1
    /\ UNCHANGED <<properties, search_history, investment_analyses,
                   cache, store, last>>

PropertyCrudCreate(data) ==
    \E out \in {PropertyCreate(NewSession(Tables), data)} :
       /\ Len(out.sess.rows) <= MaxStored
       /\ properties' = out.sess.rows
       /\ last' = [Idle EXCEPT
                     !.op = "property_create",
                     !.outcome = IF out.raised = "none"
                                 THEN "returned" ELSE out.raised,
                     !.data = <<data>>,
                     !.pre = Tables]
       /\ UNCHANGED <<search_history, investment_analyses, cache, store, now>>

PropertyCrudSearch(city, property_type, max_price, limit) ==
    \E found \in PropertySearch(properties, city, property_type,
                                max_price, limit) :
       /\ last' = [Idle EXCEPT
                     !.op = "property_search", !.outcome = "returned",
                     !.city = city, !.property_type = property_type,
                     !.max_price = max_price, !.limit = limit,
                     !.rows = found,
                     !.pre = Tables]
       /\ UNCHANGED <<properties, search_history, investment_analyses,
                      cache, store, now>>

PropertyCrudUpdate(property_id, u) ==
    \E out \in {PropertyUpdate(NewSession(Tables), property_id, u)} :
       /\ properties' = out.sess.rows
       /\ last' = [Idle EXCEPT
                     !.op = "property_update",
                     !.outcome = IF out.raised = "none"
                                 THEN "returned" ELSE out.raised,
                     !.id = property_id, !.data = <<u>>,
                     !.ret = out.ret,
                     !.pre = Tables]
       /\ UNCHANGED <<search_history, investment_analyses, cache, store, now>>

PropertyCrudDelete(property_id) ==
    \E out \in {PropertyDelete(NewSession(Tables), property_id)} :
       /\ properties' = (IF out.raised = "none" THEN out.sess.rows
                         ELSE properties)
       /\ last' = [Idle EXCEPT
                     !.op = "property_delete",
                     !.outcome = IF out.raised = "none"
                                 THEN "returned" ELSE out.raised,
                     !.id = property_id,
                     !.ret = out.ret,
                     !.pre = Tables]
       /\ investment_analyses' = (IF out.raised = "none" THEN out.sess.analyses
                                  ELSE investment_analyses)
       /\ UNCHANGED <<search_history, cache, store, now>>

AnalysisCrudCreate(data) ==
    \E out \in {InvestmentAnalysisCreate(NewSession(Tables), data)} :
       /\ Len(out.sess.analyses) <= MaxAnalyses
       /\ investment_analyses' = out.sess.analyses
       /\ last' = [Idle EXCEPT
                     !.op = "analysis_create",
                     !.outcome = IF out.raised = "none"
                                 THEN "returned" ELSE out.raised,
                     !.id = data.property_id, !.data = <<data>>,
                     !.pre = Tables]
       /\ UNCHANGED <<properties, search_history, cache, store, now>>

AnalysisCrudGetByPropertyId(property_id) ==
    \E found \in GetByPropertyId(investment_analyses, property_id) :
       /\ last' = [Idle EXCEPT
                     !.op = "analysis_get_by_property_id",
                     !.outcome = "returned",
                     !.id = property_id, !.rows = found,
                     !.ret = IF found = <<>> THEN "None" ELSE "row",
                     !.pre = Tables]
       /\ UNCHANGED <<properties, search_history, investment_analyses,
                      cache, store, now>>

AnalysisCrudGetAllForProperty(property_id) ==
    \E found \in GetAllForProperty(investment_analyses, property_id) :
       /\ last' = [Idle EXCEPT
                     !.op = "analysis_get_all_for_property",
                     !.outcome = "returned",
                     !.id = property_id, !.rows = found,
                     !.pre = Tables]
       /\ UNCHANGED <<properties, search_history, investment_analyses,
                      cache, store, now>>

\* SearchHistoryCRUD.create in a session of its own.
HistoryCrudCreate(city, property_type, max_price, results_count) ==
    \E out \in {SearchHistoryCreate(NewSession(Tables), city, property_type,
                                    max_price, results_count)} :
       /\ Len(out.sess.hist) <= MaxHistory
       /\ search_history' = out.sess.hist
       /\ last' = [Idle EXCEPT
                     !.op = "history_create",
                     !.outcome = IF out.raised = "none"
                                 THEN "returned" ELSE out.raised,
                     !.req = [city |-> city, max_price |-> max_price,
                              property_type |-> property_type],
                     !.id = out.sess.hist[Len(out.sess.hist)].id,
                     !.rows = <<out.sess.hist[Len(out.sess.hist)]>>,
                     !.pre = Tables]
       /\ UNCHANGED <<properties, investment_analyses, cache, store, now>>

\* SearchHistoryCRUD.get_recent.
HistoryCrudGetRecent(limit) ==
    \E found \in GetRecent(search_history, limit) :
       /\ last' = [Idle EXCEPT
                     !.op = "history_get_recent", !.outcome = "returned",
                     !.limit = limit, !.rows = found,
                     !.pre = Tables]
       /\ UNCHANGED <<properties, search_history, investment_analyses,
                      cache, store, now>>

(***************************************************************************)
(* The specification of the application.                                   *)
(***************************************************************************)
Init ==
    /\ properties = <<>>
    /\ search_history = <<>>
    /\ investment_analyses = <<>>
    /\ cache = [state |-> "none", enabled |-> FALSE, client |-> FALSE]
    /\ store = EmptyStore
    /\ now = 0
    /\ last = Idle

Next ==
    \E req \in UiRequests, gk \in BOOLEAN, fk \in BOOLEAN :
        SearchTab(req, gk, fk)

Spec == Init /\ [][Next]_vars

(***************************************************************************)
(* The specification of the agents called on their own.                    *)
(***************************************************************************)
AgentNext ==
    \/ \E req \in AnyRequests, r \in ScrapeResps, m \in ModelResps :
           AgentExecute(req, r, m)
    \/ \E reply \in StructResps : AgentInvest(reply)
    \/ \E reply \in StructResps : AgentTrend(reply)

AgentSpec == Init /\ [][AgentNext]_vars

(***************************************************************************)
(* The specification of the cache gateway.                                 *)
(***************************************************************************)
\* The calls of set: every value under the search key, two under the other.
CacheSets ==
    [key : {"search:city:Pune"}, value : CacheValues, ttl : CacheTtls \ {0}]
    \cup [key : {"search:city:Pune"}, value : {"0"}, ttl : {0}]
    \cup [key : {"trend:city:Pune"}, value : {"0", "object()"}, ttl : {3600}]

CacheNext ==
    \/ \E flag \in BOOLEAN, conn \in ConnectOutcomes : CacheInit(flag, conn)
    \/ \E k \in CacheKeys, f \in BOOLEAN : CacheGet(k, f)
    \/ \E a \in CacheSets, f \in BOOLEAN : CacheSet(a.key, a.value, a.ttl, f)
    \/ \E k \in CacheKeys, f \in BOOLEAN : CacheDelete(k, f)
    \/ \E p \in CachePatterns, f \in BOOLEAN : CacheInvalidatePattern(p, f)
    \/ \E f \in BOOLEAN : CacheClearAll(f)
    \/ CacheExpire

CacheSpec == Init /\ [][CacheNext]_vars

(***************************************************************************)
(* The specification of the static method generate_key.                    *)
(***************************************************************************)
KeyNext ==
    \E prefix \in KeyPrefixes, kw \in KwargLists : CacheGenerateKey(prefix, kw)

KeySpec == Init /\ [][KeyNext]_vars

(***************************************************************************)
(* The specification of PropertyCRUD.                                      *)
(***************************************************************************)
PropertyIds == 1..(MaxStored + 1)

CrudNext ==
    \/ Tick
    \/ \E data \in PropertyDicts : PropertyCrudCreate(data)
    \/ \E a \in SearchArgs :
           PropertyCrudSearch(a.city, a.property_type, a.max_price, a.limit)
    \/ \E id \in PropertyIds,
          u \in {x \in PropertyUpdates : x.s # "Goa" /\ x.key # "bogus"} :
           PropertyCrudUpdate(id, u)
    \/ \E id \in PropertyIds : PropertyCrudDelete(id)

CrudSpec == Init /\ [][CrudNext]_vars

(***************************************************************************)
(* The specification of the persistence layer with its three tables.       *)
(***************************************************************************)
StoreUpdates == {u \in PropertyUpdates : u.s = "Goa" \/ u.key = "bogus"}

StoreNext ==
    \/ Tick
    \/ \E data \in {d \in PropertyDicts : d.building_name \in {"B1", "B5"}} :
           PropertyCrudCreate(data)
    \/ \E id \in PropertyIds, u \in StoreUpdates : PropertyCrudUpdate(id, u)
    \/ \E id \in PropertyIds : PropertyCrudDelete(id)
    \/ \E data \in AnalysisDicts : AnalysisCrudCreate(data)
    \/ \E id \in PropertyIds : AnalysisCrudGetByPropertyId(id)
    \/ \E id \in PropertyIds : AnalysisCrudGetAllForProperty(id)

StoreSpec == Init /\ [][StoreNext]_vars

(***************************************************************************)
(* The specification of SearchHistoryCRUD.                                 *)
(***************************************************************************)
HistoryNext ==
    \/ Tick
    \/ \E city \in Cities, n \in {0, 5} : HistoryCrudCreate(city, "Flat", 50, n)
    \/ \E limit \in {1, 2, 10} : HistoryCrudGetRecent(limit)

HistorySpec == Init /\ [][HistoryNext]_vars

(***************************************************************************)
(* The four tabs of the dashboard together with the persistence layer.     *)
(***************************************************************************)
FlowScrapes ==
    {ScrapeRaise} \cup
    {ScrapeDict("true", TRUE, PyList(<<rec>>)) :
        rec \in {x \in ScrapedRecords : ~x.extra}}
FlowReplies == {[kind |-> "text", text |-> t] : t \in {<<"OBJ">>, <<"junk">>}}


FlowNext ==
    \/ Tick
    \/ \E req \in {x \in UiRequests : x.city = "Pune"}, r \in FlowScrapes :
           SearchTabStep(req, TRUE, TRUE, r,
                         [kind |-> "text", s |-> "Market analysis"])
    \/ \E gk \in BOOLEAN : InvestTab(gk, FlowReplies)
    \/ \E city \in {"Pune", ""}, gk \in BOOLEAN :
           TrendTab(city, gk, FlowReplies)
    \/ HistoryTab
    \/ \E data \in {rec \in ScrapedRecords : ~rec.extra} :
           PropertyCrudCreate(data)
    \/ \E id \in PropertyIds, u \in StoreUpdates : PropertyCrudUpdate(id, u)
    \/ \E id \in PropertyIds : PropertyCrudDelete(id)
    \/ \E data \in {d \in AnalysisDicts : d.property_id = 1} :
           AnalysisCrudCreate(data)

FlowSpec == Init /\ [][FlowNext]_vars

(***************************************************************************)
(* The application beside a cache service that was constructed with        *)
(* caching enabled and the store reachable.                                *)
(***************************************************************************)
CachedInit ==
    /\ properties = <<>>
    /\ search_history = <<>>
    /\ investment_analyses = <<>>
    /\ cache = CacheConstruct(TRUE, "ok")
    /\ store = EmptyStore
    /\ now = 0
    /\ last = Idle

CachedSpec == CachedInit /\ [][Next]_vars


(***************************************************************************)
(* The construction of the agents in each variant of the application: the  *)
(* keys the user supplied, the keys of the environment, and the keys the   *)
(* providers are configured with.                                          *)
(***************************************************************************)
SearchAgentInit(user, env) ==
    /\ last' = [Idle EXCEPT
                  !.op = "search_agent_init", !.outcome = "returned",
                  !.user = user, !.env = env,
                  !.used = SearchAgentKeys(user, env),
                  !.pre = Tables]
    /\ UNCHANGED <<properties, search_history, investment_analyses,
                   cache, store, now>>

InvestmentAgentInit(gemini_key, env_key) ==
    /\ last' = [Idle EXCEPT
                  !.op = "investment_agent_init", !.outcome = "returned",
                  !.user = [NoKeys EXCEPT !.gemini = gemini_key],
                  !.env = [NoKeys EXCEPT !.gemini = env_key],
                  !.used = [NoKeys EXCEPT
                              !.gemini = StructAgentKey(gemini_key, env_key)],
                  !.pre = Tables]
    /\ UNCHANGED <<properties, search_history, investment_analyses,
                   cache, store, now>>

MarketTrendAgentInit(gemini_key, env_key) ==
    /\ last' = [Idle EXCEPT
                  !.op = "market_trend_agent_init", !.outcome = "returned",
                  !.user = [NoKeys EXCEPT !.gemini = gemini_key],
                  !.env = [NoKeys EXCEPT !.gemini = env_key],
                  !.used = [NoKeys EXCEPT
                              !.gemini = StructAgentKey(gemini_key, env_key)],
                  !.pre = Tables]
    /\ UNCHANGED <<properties, search_history, investment_analyses,
                   cache, store, now>>

\* main of Ai_RealAgent.py: the sidebar fields go to st.session_state, the
\* agent is built from get_api_key() and get_firecrawl_key().
LegacyAgentInit(session, env) ==
    /\ last' = [Idle EXCEPT
                  !.op = "legacy_agent_init", !.outcome = "returned",
                  !.user = session, !.env = env,
                  !.used = [gemini |-> GetApiKey(env.gemini, session.gemini),
                            firecrawl |-> GetApiKey(env.firecrawl,
                                                    session.firecrawl)],
                  !.pre = Tables]
    /\ UNCHANGED <<properties, search_history, investment_analyses,
                   cache, store, now>>

ConfigNext ==
    \/ \E user, env \in [gemini : ApiKeys, firecrawl : ApiKeys] :
           SearchAgentInit(user, env)
    \/ \E k \in ApiKeys, e \in ApiKeys : InvestmentAgentInit(k, e)
    \/ \E k \in ApiKeys, e \in ApiKeys : MarketTrendAgentInit(k, e)
    \/ \E session, env \in [gemini : ApiKeys, firecrawl : ApiKeys] :
           LegacyAgentInit(session, env)

ConfigSpec == Init /\ [][ConfigNext]_vars


(***************************************************************************)
(* Helpers of the properties below.                                        *)
(***************************************************************************)
\* How often a call or write appears in the log of an operation.
Count(log, what) == Cardinality({i \in DOMAIN log : log[i] = what})

\* The rows PropertyCRUD.search(city = c) selects.
RowsOfCity(rows, c) == SelectSeq(rows, LAMBDA row : row.city = c)

\* A scraped record whose own save can succeed.
Saveable(rec) == rec.city # "missing" /\ ~rec.extra

\* A request that passes validation: a city, a price within the bounds of
\* the price widget, a property type the type widget offers.
ValidRequest(req) ==
    /\ req.city # ""
    /\ req.max_price >= MinPrice /\ req.max_price <= MaxPrice
    /\ req.property_type \in PropertyTypes

IsPrefix(a, b) == Len(a) <= Len(b) /\ SubSeq(b, 1, Len(a)) = a

IsSearch == last.op \in {"execute", "search_tab"} /\ Count(last.log, "scrape") > 0

(***************************************************************************)
(* C1.  For every valid request and every behaviour of the providers,      *)
(* SearchAgent.execute returns a composite result whose properties is a    *)
(* list and whose analysis is a non-empty string.                          *)
(***************************************************************************)
C1_CompositeResult ==
    (last.op = "execute" /\ ValidRequest(last.req)) =>
        /\ last.outcome = "returned"
        /\ last.props.tag = "list"
        /\ last.analysis.tag = "str"
        /\ last.analysis.s # ""

(***************************************************************************)
(* C2.  With the cache enabled and reachable, a search request equal to    *)
(* the one just served makes no scrape call, no model call and no          *)
(* persistence write, and returns the composite result of the first.       *)
(* (No time passes in this model: every repeated request is within the     *)
(* search TTL.)                                                            *)
(***************************************************************************)
C2_SecondRequestFromCache ==
    [][ ( /\ last.op = "search_tab" /\ last.outcome = "ok"
          /\ last'.op = "search_tab" /\ last'.outcome \in {"ok", "error"}
          /\ last'.req = last.req
          /\ cache.state = "ready" /\ cache.enabled /\ cache.client )
        => ( /\ last'.log = <<>>
             /\ last'.props = last.props
             /\ last'.analysis = last.analysis
             /\ properties' = properties
             /\ search_history' = search_history ) ]_vars

(***************************************************************************)
(* C3.  A request that violates validation (empty city, price out of       *)
(* bounds, unknown property type) is rejected by the search pipeline with  *)
(* a ValidationError before any scrape or model call or persistence        *)
(* write, and the tables are unchanged.                                    *)
(***************************************************************************)
C3_InvalidRequestRejected ==
    (last.op = "execute" /\ ~ValidRequest(last.req)) =>
        /\ last.outcome = "ValidationError"
        /\ last.log = <<>>
        /\ Tables = last.pre
        /\ store = EmptyStore

(***************************************************************************)
(* C4.  Every search of the search tab that completes without a            *)
(* caller-visible error, returning N >= 0 properties, adds exactly one     *)
(* SearchHistory entry, whose results_count is N.                          *)
(***************************************************************************)
C4_OneHistoryEntryPerSearch ==
    (last.op = "search_tab" /\ last.outcome = "ok") =>
        /\ Len(search_history) = Len(last.pre.search_history) + 1
        /\ IsPrefix(last.pre.search_history, search_history)
        /\ search_history[Len(search_history)].results_count
               = Len(last.props.items)

(***************************************************************************)
(* C5.  After a search for city C whose scrape succeeded with N records    *)
(* of the scrape schema, PropertyCRUD.search(city = C) finds at least N    *)
(* rows more than before: each scraped record is persisted with city C.    *)
(***************************************************************************)
C5_ScrapedRecordsPersisted ==
    ( /\ last.op = "search_tab" /\ last.outcome \in {"ok", "error"}
      /\ ScrapeSucceeded(last.scrape)
      /\ \A i \in DOMAIN last.props.items : SchemaRecord(last.props.items[i]) )
    => Len(RowsOfCity(properties, last.req.city))
           >= Len(RowsOfCity(last.pre.properties, last.req.city))
              + Len(last.props.items)

(***************************************************************************)
(* C6.  analyze_properties given an empty list returns the fixed "No       *)
(* properties found" message and makes no call to the model; so a search   *)
(* whose scrape fails or returns an empty list never calls the model.      *)
(***************************************************************************)
C6_EmptyListShortCircuit ==
    IsSearch =>
        /\ (last.props = PyList(<<>>) =>
               /\ last.analysis = PyStr(NoPropertiesMsg)
               /\ Count(last.log, "model") = 0)
        /\ ((~ScrapeSucceeded(last.scrape) \/ last.scrape.props.items = <<>>) =>
               Count(last.log, "model") = 0)

C6_Witness ==
    /\ last.op = "execute"
    /\ last.scrape = ScrapeRaise
    /\ last.analysis = PyStr(NoPropertiesMsg)
    /\ last.log = <<"scrape">>

(***************************************************************************)
(* C7.  When the model call of the investment analysis raises, returns no  *)
(* text, or returns text from which no JSON can be parsed,                 *)
(* InvestmentAgent.execute returns (does not raise) the default record:    *)
(* the four rates 0.0, risk_score 50, recommendation 'hold' and the fixed  *)
(* fallback text.                                                          *)
(***************************************************************************)
C7_InvestFallback ==
    ( /\ last.op = "invest_execute"
      /\ \/ last.reply.kind \in {"raise", "notext"}
         \/ /\ last.reply.kind = "text"
            /\ ~JsonLoads(ResultText(last.reply.text)).ok )
    => /\ last.outcome = "returned"
       /\ last.inv.tag = "dict"
       /\ last.inv.roi_5year = 0 /\ last.inv.roi_10year = 0
       /\ last.inv.appreciation_rate = 0 /\ last.inv.rental_yield = 0
       /\ last.inv.risk_score = 50
       /\ last.inv.recommendation = "hold"
       /\ last.inv.analysis = FallbackAnalysis

C7_Witness ==
    /\ last.op = "invest_execute"
    /\ last.reply.kind = "text"
    /\ last.reply.text = <<"F", "json", "junk">>
    /\ last.outcome = "returned"
    /\ last.inv = DefaultAnalysis

(***************************************************************************)
(* C8.  ScrapingService.fetch_properties never raises and always returns   *)
(* a list: the extracted list when the response reports success, the       *)
(* empty list for every other behaviour of the provider.                   *)
(***************************************************************************)
C8_FetchReturnsList ==
    IsSearch =>
        /\ last.outcome # "raised"
        /\ last.props.tag = "list"
        /\ (ScrapeSucceeded(last.scrape) =>
               last.props.items = last.scrape.props.items)
        /\ (~ScrapeSucceeded(last.scrape) => last.props.items = <<>>)

C8_Witness ==
    /\ last.op = "execute"
    /\ last.scrape = ScrapeDict("true", TRUE, PyNone)
    /\ last.props = PyList(<<>>)

(***************************************************************************)
(* C9.  In the persistence step of a search a failed property save is      *)
(* skipped: every scraped property whose own save can succeed is           *)
(* persisted, the SearchHistory entry is written, and the request          *)
(* completes without a caller-visible error.                               *)
(***************************************************************************)
C9_FailedSaveSkipped ==
    (last.op = "search_tab" /\ Count(last.log, "save_property") > 0) =>
        /\ last.outcome = "ok"
        /\ Len(search_history) = Len(last.pre.search_history) + 1
        /\ Len(properties) = Len(last.pre.properties)
               + Len(SelectSeq(last.props.items, Saveable))

(***************************************************************************)
(* C10.  The cache gateway never raises to its caller: construction        *)
(* completes, with caching disabled, for every kind of error of the        *)
(* connection test, and every operation returns.                           *)
(***************************************************************************)
C10_CacheNeverRaises ==
    /\ cache.state # "raised"
    /\ last.op \in {"cache_init", "cache_get", "cache_set", "cache_delete",
                    "cache_invalidate", "cache_clear"}
           => last.outcome = "returned"

(***************************************************************************)
(* C11.  generate_key does not depend on the order in which the            *)
(* parameters are supplied: every ordering of the same name/value pairs    *)
(* under the same prefix yields the same key.                              *)
(***************************************************************************)
C11_KeyOrderIndependent ==
    last.op = "generate_key" =>
        \A p \in Orderings(last.kwargs) :
            GenerateKey(last.prefix, p) = last.key

C11_Witness ==
    /\ last.op = "generate_key"
    /\ Len(last.kwargs) = 3
    /\ last.kwargs[1].name = "property_type"
    /\ last.kwargs[3].name = "city"
    /\ last.key = "search:city:Pune:max_price:5.0:property_type:Flat"

(***************************************************************************)
(* C12.  For a non-empty property list the free-text analysis is the       *)
(* model's text verbatim when the model call yields text, and one and the  *)
(* same fixed "analysis could not be generated" message both when the      *)
(* model call raises and when the response carries no text.                *)
(***************************************************************************)
C12_OneFailureMessage ==
    (last.op = "execute" /\ Truthy(last.props)) =>
        /\ last.model.kind = "text" => last.analysis = PyStr(last.model.s)
        /\ last.model.kind \in {"raise", "notext"} =>
               last.analysis = PyStr(CouldNotMsg)

(***************************************************************************)
(* C13.  PropertyCRUD.search returns exactly the (at most limit) newest    *)
(* stored properties that satisfy every supplied filter (city equal,       *)
(* property_type equal, price <= max price), newest first; a filter is     *)
(* supplied when its argument is not None, whatever its value.             *)
(***************************************************************************)
Supplied(row, city, property_type, max_price) ==
    /\ city.tag # "None" => row.city = city.s
    /\ property_type.tag # "None" => row.property_type = property_type.s
    /\ max_price.some => (row.price.kind = "float" /\ row.price.n <= max_price.n)

C13_SearchAppliesFilters ==
    last.op = "property_search" =>
        LET wanted == SelectSeq(properties, LAMBDA row :
                          Supplied(row, last.city, last.property_type,
                                   last.max_price))
        IN /\ \A i \in DOMAIN last.rows :
                  \E k \in DOMAIN wanted : wanted[k] = last.rows[i]
           /\ Len(last.rows)
                  = (IF last.limit < Len(wanted) THEN last.limit ELSE Len(wanted))
           /\ \A i, j \in DOMAIN last.rows :
                  i < j => last.rows[i].created_at >= last.rows[j].created_at
           /\ \A k \in DOMAIN wanted :
                  (\A i \in DOMAIN last.rows : last.rows[i] # wanted[k]) =>
                      \A i \in DOMAIN last.rows :
                          last.rows[i].created_at >= wanted[k].created_at

(***************************************************************************)
(* C14.  PropertyCRUD.update and PropertyCRUD.delete with an id that is    *)
(* not stored return None and False, do not raise and leave the three      *)
(* tables unchanged; with a stored id, delete removes exactly that         *)
(* property and update changes only the named fields of that property.     *)
(***************************************************************************)
C14_UpdateDeleteById ==
    last.op \in {"property_update", "property_delete"} =>
        LET stored == PropertyGetById(last.pre.properties, last.id) # <<>>
            others(rows) == SelectSeq(rows, LAMBDA row : row.id # last.id)
        IN /\ ~stored =>
                 /\ last.outcome = "returned"
                 /\ last.ret = (IF last.op = "property_update"
                                THEN "None" ELSE "False")
                 /\ Tables = last.pre
           /\ (stored /\ last.op = "property_delete") =>
                 /\ last.outcome = "returned"
                 /\ properties = others(last.pre.properties)
                 /\ search_history = last.pre.search_history
                 /\ investment_analyses = last.pre.investment_analyses
           /\ (stored /\ last.op = "property_update") =>
                 /\ others(properties) = others(last.pre.properties)
                 /\ Len(properties) = Len(last.pre.properties)
                 /\ search_history = last.pre.search_history
                 /\ investment_analyses = last.pre.investment_analyses

(***************************************************************************)
(* C15.  get_by_property_id returns None when the property has no          *)
(* analysis and otherwise the analysis created last for it;                *)
(* get_all_for_property returns the analyses of that property and no       *)
(* other, the one created last first.  (Analyses are never deleted and     *)
(* ids grow, so the analysis created last is the one with the largest      *)
(* id.)                                                                    *)
(***************************************************************************)
C15_LatestAnalysis ==
    LET mine == AnalysesOf(investment_analyses, last.id)
    IN /\ last.op = "analysis_get_by_property_id" =>
             IF mine = <<>> THEN last.rows = <<>> /\ last.ret = "None"
             ELSE last.rows = <<mine[Len(mine)]>>
       /\ last.op = "analysis_get_all_for_property" =>
             /\ Len(last.rows) = Len(mine)
             /\ \A i \in DOMAIN last.rows :
                    last.rows[i] = mine[Len(mine) + 1 - i]

(***************************************************************************)
(* C16.  Foreign-key invariant: every stored InvestmentAnalysis has the    *)
(* property_id of a stored Property.                                       *)
(***************************************************************************)
C16_AnalysisReferencesProperty ==
    \A i \in DOMAIN investment_analyses :
        PropertyGetById(properties, investment_analyses[i].property_id) # <<>>

(***************************************************************************)
(* C17.  Every stored Property has a non-empty city and a price that is a  *)
(* number and not negative.                                                *)
(***************************************************************************)
C17_StoredPropertyValid ==
    \A i \in DOMAIN properties :
        /\ properties[i].city \notin {"", "missing"}
        /\ properties[i].price.kind = "float"
        /\ properties[i].price.n >= 0

(***************************************************************************)
(* C18.  SearchHistory and InvestmentAnalysis are append-only: in every    *)
(* step of every flow (the four tabs and the property and analysis         *)
(* operations) each row of search_history and of investment_analyses       *)
(* that existed before the step exists after it with all its values        *)
(* unchanged.                                                              *)
(***************************************************************************)
Kept(before, after) ==
    \A i \in DOMAIN before : \E j \in DOMAIN after : after[j] = before[i]

C18_AppendOnly ==
    [][ /\ Kept(search_history, search_history')
        /\ Kept(investment_analyses, investment_analyses') ]_vars

C18_Witness ==
    /\ last.op = "property_delete"
    /\ last.outcome = "IntegrityError"
    /\ AnalysesOf(investment_analyses, last.id) # <<>>
    /\ search_history # <<>>

(***************************************************************************)
(* C19.  The persistence writes of one search form one transaction group:  *)
(* when the group fails before it is complete (the history save raises),   *)
(* none of the properties written by that search remains stored, and the   *)
(* rows of earlier searches are unaffected.                                *)
(***************************************************************************)
C19_SearchWritesAtomic ==
    (last.op = "search_tab" /\ last.outcome = "error") =>
        /\ properties = last.pre.properties
        /\ search_history = last.pre.search_history

(***************************************************************************)
(* C20.  In the investment tab, for a stored property and a Gemini key,    *)
(* every model response lets the flow complete without a caller-visible    *)
(* error and persists exactly one InvestmentAnalysis row, for the          *)
(* property selected.                                                      *)
(***************************************************************************)
C20_InvestFlowCompletes ==
    ( /\ last.op = "invest_tab"
      /\ last.rows # <<>>
      /\ last.outcome # "rejected_keys" )
    => /\ last.outcome = "ok"
       /\ Len(investment_analyses) = Len(last.pre.investment_analyses) + 1
       /\ IsPrefix(last.pre.investment_analyses, investment_analyses)
       /\ investment_analyses[Len(investment_analyses)].property_id = last.id
       /\ PropertyGetById(properties, last.id) # <<>>

(***************************************************************************)
(* C21.  A model response that is the text of a JSON object between a      *)
(* leading and a trailing fence marker, with or without the language tag,  *)
(* gives the same result of InvestmentAgent.execute and of                 *)
(* MarketTrendAgent.execute as the text of the object alone, also for an   *)
(* object with a fence marker inside a string value.                       *)
(***************************************************************************)
C21_FenceTolerant ==
    \A j \in ObjectTexts :
       ( /\ last.reply.kind = "text"
         /\ last.reply.text \in Fenced(j) )
       => /\ last.op = "invest_execute"
             => last.inv = InvestExecute([kind |-> "text", text |-> j]).value
          /\ last.op = "trend_execute"
             => last.trend = TrendExecute([kind |-> "text", text |-> j]).value

(***************************************************************************)
(* C22.  The investment tab and the market trends tab make no scrape call  *)
(* and no cache operation; the trends tab leaves the three tables as they  *)
(* are; the investment tab leaves properties and search_history as they    *)
(* are and at most appends rows to investment_analyses.                    *)
(***************************************************************************)
C22_FlowsFrame ==
    [][ last'.op \in {"invest_tab", "trend_tab"}
        => /\ Count(last'.log, "scrape") = 0
           /\ last'.storeCalls = 0
           /\ cache' = cache /\ store' = store
           /\ properties' = properties
           /\ search_history' = search_history
           /\ last'.op = "trend_tab"
              => investment_analyses' = investment_analyses
           /\ last'.op = "invest_tab"
              => IsPrefix(investment_analyses, investment_analyses') ]_vars

C22_Witness ==
    /\ last.op = "trend_tab"
    /\ last.outcome = "ok"
    /\ last.log = <<"model">>
    /\ last.trend = TrendObject
    /\ properties # <<>> /\ search_history # <<>> /\ investment_analyses # <<>>
    /\ Tables = last.pre

(***************************************************************************)
(* C23.  A search that reaches SearchAgent.execute makes exactly one       *)
(* scrape call, first of all; at most one model call, after it; every      *)
(* write to the database after both; a failed scrape or model call is not  *)
(* made again, the empty list or the error text is used instead.           *)
(***************************************************************************)
C23_CallsOnceInOrder ==
    ( /\ last.op = "search_tab"
      /\ last.outcome \notin {"rejected_city", "rejected_keys"} )
    => /\ Count(last.log, "scrape") = 1
       /\ last.log[1] = "scrape"
       /\ Count(last.log, "model") <= 1
       /\ Count(last.log, "model") = 1 => last.log[2] = "model"
       /\ \A i \in DOMAIN last.log :
             last.log[i] \in {"save_property", "save_history"}
             => /\ i > Count(last.log, "scrape") + Count(last.log, "model")
                /\ last.analysis.tag = "str"
       /\ ~ScrapeSucceeded(last.scrape)
          => last.props = PyList(<<>>) /\ last.log = <<"scrape">>
       /\ last.model.kind = "raise"
          => last.analysis = PyStr(ErrorMsg) /\ Count(last.log, "model") = 1

C23_Witness ==
    /\ last.op = "search_tab"
    /\ last.model.kind = "raise"
    /\ last.log = <<"scrape", "model", "save_property", "save_history">>
    /\ last.analysis = PyStr(ErrorMsg)

(***************************************************************************)
(* C24.  Every entry of the store has a time to live; a set that writes    *)
(* writes the text of its value with the time to live the caller gave;     *)
(* get returns only what an entry with time left holds; after a set that   *)
(* fails (a value json.dumps refuses, an error of the store) there is no   *)
(* entry under its key.                                                    *)
(***************************************************************************)
C24_EntriesExpire ==
    [][ /\ \A k \in CacheKeys : store'[k].text # "nil" => store'[k].ttl > 0
        /\ ( /\ last'.op = "cache_set" /\ now' = now
             /\ ~CacheOff(cache) /\ last'.errors = 0 )
           => store'[last'.key] = [text |-> JsonDumps(last'.value).text,
                                   ttl |-> last'.ttl]
        /\ ( /\ last'.op = "cache_set" /\ now' = now
             /\ last'.errors > 0 )
           => store'[last'.key] = Absent
        /\ ( /\ last'.op = "cache_get" /\ now' = now
             /\ last'.ret # "None" )
           => /\ store[last'.key].text # "nil"
              /\ store[last'.key].ttl > 0 ]_vars

(***************************************************************************)
(* C25.  In every variant, a provider is configured with the key the user  *)
(* supplied whenever that key is not empty, whatever the environment       *)
(* holds, and with the key of the environment only when the user supplied  *)
(* none.                                                                   *)
(***************************************************************************)
C25_UserKeyFirst ==
    last.op \in {"search_agent_init", "investment_agent_init",
                 "market_trend_agent_init", "legacy_agent_init"}
    => \A which \in {"gemini", "firecrawl"} :
          /\ last.user[which] # "" => last.used[which] = last.user[which]
          /\ last.user[which] = "" => last.used[which] = last.env[which]

(***************************************************************************)
(* C26.  With caching on and the store answering, a get that directly      *)
(* follows a set of the same key, the entry not yet expired, returns a     *)
(* value equal to the one set, for every value json.dumps accepts; a get   *)
(* that directly follows a delete of the same key returns None.            *)
(***************************************************************************)
C26_RoundTrip ==
    [][ ( /\ ~CacheOff(cache)
          /\ last'.op = "cache_get" /\ last'.errors = 0
          /\ last'.key = last.key )
        => /\ ( /\ last.op = "cache_set" /\ last.errors = 0
                /\ store[last.key].text # "nil" )
              => last'.ret = last.value
           /\ (last.op = "cache_delete" /\ last.errors = 0)
              => last'.ret = "None" ]_vars

(***************************************************************************)
(* C30.  generate_key is injective: under one prefix, keyword arguments    *)
(* that differ as sets of name/value pairs never give the same key, also   *)
(* when a value holds the separator ':'.                                   *)
(***************************************************************************)
C30_KeyInjective ==
    last.op = "generate_key" =>
        \A kw \in KwargLists :
            {kw[i] : i \in DOMAIN kw}
                # {last.kwargs[i] : i \in DOMAIN last.kwargs}
            => GenerateKey(last.prefix, kw) # last.key

C28_ResultInRange ==
    (last.op = "invest_execute" /\ last.outcome = "returned")
    => /\ last.inv.risk_score >= 0 /\ last.inv.risk_score <= 100
       /\ last.inv.recommendation \in {"buy", "hold", "avoid"}

(***************************************************************************)
(* C29.  Of a constructed CacheService: enabled implies that the store     *)
(* client is present; no operation changes the object, so a store error    *)
(* fails only its own call; and while caching is disabled, no operation    *)
(* calls the store or changes it.                                          *)
(***************************************************************************)
C29_DegradedSticky ==
    [][ /\ cache'.state = "ready" => (cache'.enabled => cache'.client)
        /\ ( /\ last'.op \in {"cache_get", "cache_set", "cache_delete",
                              "cache_invalidate", "cache_clear"}
             /\ now' = now )
           => /\ cache' = cache
              /\ last'.outcome = "returned"
              /\ ~cache.enabled
                 => /\ last'.storeCalls = 0 /\ last'.errors = 0
                    /\ last'.ret = "None"
                    /\ store' = store ]_vars

C29_Witness ==
    /\ cache = [state |-> "ready", enabled |-> FALSE, client |-> FALSE]
    /\ last.op = "cache_get"
    /\ last.storeCalls = 0
    /\ last.ret = "None"
    /\ store[last.key].text # "nil"

=============================================================================
